---- MODULE Spec2Model ----
(***************************************************************************)
(* Agent execution controller: lifecycle state machine, budget guard,      *)
(* kill switch, append-only event log and the control loop that combines   *)
(* them (runExecution / executeStep / handleExecutionError).               *)
(*                                                                         *)
(* Encodings                                                               *)
(*  - An optional field (startedAt?, endedAt?, terminationReason?,         *)
(*    killReason: string | null) is a sequence: << >> when unset, <<v>>    *)
(*    when set.                                                            *)
(*  - USD amounts are IEEE doubles in the source.  The only amount ever    *)
(*    added is the literal 0.1, and budgets are literals k/10.  A double   *)
(*    v is encoded by the integer 10*n + d, n = round(10*v), d the sign of *)
(*    v - double(n/10); the encoding preserves < and = on these values.    *)
(*    0.1+0.1+0.1 is 0.30000000000000004 (code 31), above the literal 0.3  *)
(*    (code 30); seven additions give 0.7 (70), the eighth                 *)
(*    0.7999999999999999 (79).                                             *)
(*  - The body of runExecution has no await: the loop is split at its      *)
(*    kill-switch check points (one action per executeStep call) so that   *)
(*    an operator can trigger or reset the switch between two steps.       *)
(*    Calls of the caller's thread (transitionState,                       *)
(*    handleExecutionError, clearEvents, generateSummary) happen only      *)
(*    while no loop is in progress and no promise of runExecution waits    *)
(*    for its .catch or .finally callback; runExecution on another run     *)
(*    may be called while an earlier promise still waits for them.         *)
(*  - A run can be started again from PAUSED, so the number of             *)
(*    runExecution calls per run is capped by MaxRunCalls.                 *)
(***************************************************************************)
EXTENDS Integers, Sequences, FiniteSets, TLC

\* ---------------------------------------------------------------- bounds
MaxClock == 1
MaxSmallSteps == 1
MaxRunCalls == 2
MaxProbeSteps == 6
MaxMutations == 2
MaxFoldLen == 3
MaxFoldCalls == 2

\* ------------------------------------------------------ program constants
STEP_TOKENS == 50
STEP_USD == 10
DEFAULT_MAX_STEPS == 10

None == << >>
Some(v) == <<v>>

States == {"CREATED", "RUNNING", "PAUSED", "KILLED", "COMPLETED", "FAILED"}

\* budgets handed to createExecutionRun: {maxTokens, maxUsd}; maxUsd codes
\* the literals 0.5 and 0.2
Budget(maxTokens, maxUsd) == [maxTokens |-> maxTokens, maxUsd |-> maxUsd]
Budgets == {Budget(200, 50), Budget(200, 20)}

\* values of the maxSteps argument of runExecution, its default among them
StepArgs == (0..MaxSmallSteps) \cup {DEFAULT_MAX_STEPS}

\* reasons an operator passes to killExecution; the first is the default
\* value of the parameter
DEFAULT_KILL_REASON == "Manual termination"
KillReasons == {DEFAULT_KILL_REASON, "operator stop"}

\* ----------------------------------------------------------------- errors
\* error.message, kept structured: the template and its interpolated values
Message(fmt, s, t, x, y) == [fmt |-> fmt, s |-> s, t |-> t, x |-> x, y |-> y]
PlainMessage(s) == Message("%s", s, "", 0, 0)

NoError ==
    [code |-> "OK", isExecutionError |-> FALSE, message |-> PlainMessage(""),
     limitType |-> "", spent |-> 0, limit |-> 0, reason |-> "",
     fromState |-> "", toState |-> ""]

BudgetExceededError(limitType, spent, limit) ==
    [NoError EXCEPT !.code = "BUDGET_EXCEEDED", !.isExecutionError = TRUE,
        !.message = Message("%s budget exceeded: spent %x, limit %y",
                            IF limitType = "tokens" THEN "Token" ELSE "Cost",
                            "", spent, limit),
        !.limitType = limitType, !.spent = spent, !.limit = limit]

KillSwitchTriggeredError(reason) ==
    [NoError EXCEPT !.code = "KILL_SWITCH_TRIGGERED", !.isExecutionError = TRUE,
        !.message = Message("Execution terminated by kill switch: %s",
                            reason, "", 0, 0),
        !.reason = reason]

InvalidStateTransitionError(fromState, toState) ==
    [NoError EXCEPT !.code = "INVALID_STATE_TRANSITION",
        !.isExecutionError = TRUE,
        !.message = Message("Invalid state transition: %s -> %t",
                            fromState, toState, 0, 0),
        !.fromState = fromState, !.toState = toState]

\* an error that is not an ExecutionError (a plain Error thrown by a
\* collaborator)
UnrecognizedError(text) ==
    [NoError EXCEPT !.code = "UNRECOGNIZED", !.message = PlainMessage(text)]

\* ------------------------------------------------------------------ state
VARIABLES
    runs,        \* run id -> ExecutionRun
    killed,      \* killSwitch.ts: let killed
    killReason,  \* killSwitch.ts: let killReason (optional)
    events,      \* eventStore.ts: const events
    now,         \* the value Date.now() returns
    nextId,      \* number of ids crypto.randomUUID() has issued
    loop,        \* run id -> position of its runExecution call
    thrown,      \* run id -> rejection of its runExecution promise, if any
    calls,       \* run id -> number of runExecution calls made on it
    last,        \* what the latest call threw to its caller
    trig,        \* history: reason of the latest trigger since the last reset
    probe,       \* argument of a direct enforceLimits call
    probeOut,    \* that call: made or not, the run afterwards, what it threw
    snapshot,    \* the array a caller holds from its latest getEvents() call
    owner,       \* history: event id -> the run whose step logged the event
    stopped,     \* history: run id -> run.spent when the run first failed
                 \* in a step or became terminal, if it has
    summary,     \* the latest generateSummary call: the run afterwards and
                 \* the ExecutionSummary returned, if a call was made
    fold         \* a caller's summarizeEvents calls on an array of its own

vars == <<runs, killed, killReason, events, now, nextId, loop, thrown, calls,
          last, trig, probe, probeOut, snapshot, owner, stopped, summary,
          fold>>

\* the runs the caller has created
Runs == DOMAIN runs

\* ------------------------------------------------------- state.ts
\* variant: a paused run may be completed directly
validTransitionsPausedCompletes ==
    [s \in States |->
        CASE s = "CREATED" -> {"RUNNING"}
          [] s = "RUNNING" -> {"PAUSED", "COMPLETED", "KILLED", "FAILED"}
          [] s = "PAUSED" -> {"RUNNING", "KILLED", "COMPLETED"}
          [] OTHER -> {}]

validTransitions ==
    [s \in States |->
        CASE s = "CREATED" -> {"RUNNING"}
          [] s = "RUNNING" -> {"PAUSED", "COMPLETED", "KILLED", "FAILED"}
          [] s = "PAUSED" -> {"RUNNING", "KILLED"}
          [] OTHER -> {}]

isTerminalState(state) ==
    state = "COMPLETED" \/ state = "KILLED" \/ state = "FAILED"

\* result of a call on a run: the run afterwards and the error thrown
Result(run, err) == [run |-> run, err |-> err]

\* variant: startedAt is stamped on every entry into RUNNING
transitionStateRestamps(run, toState, clock) ==
    IF toState \notin validTransitions[run.state]
    THEN Result(run, InvalidStateTransitionError(run.state, toState))
    ELSE LET r1 == [run EXCEPT !.state = toState]
             r2 == IF toState = "RUNNING"
                   THEN [r1 EXCEPT !.startedAt = Some(clock)]
                   ELSE r1
             r3 == IF isTerminalState(toState)
                   THEN [r2 EXCEPT !.endedAt = Some(clock)]
                   ELSE r2
         IN Result(r3, NoError)

transitionState(run, toState, clock) ==
    IF toState \notin validTransitions[run.state]
    THEN Result(run, InvalidStateTransitionError(run.state, toState))
    ELSE LET r1 == [run EXCEPT !.state = toState]
             r2 == IF toState = "RUNNING" /\ r1.startedAt = None
                   THEN [r1 EXCEPT !.startedAt = Some(clock)]
                   ELSE r1
             r3 == IF isTerminalState(toState)
                   THEN [r2 EXCEPT !.endedAt = Some(clock)]
                   ELSE r2
         IN Result(r3, NoError)

createExecutionRun(id, budget) ==
    [id |-> id, state |-> "CREATED", budget |-> budget,
     spent |-> [tokens |-> 0, usd |-> 0], steps |-> << >>,
     startedAt |-> None, endedAt |-> None, terminationReason |-> None]

\* ------------------------------------------------------- killSwitch.ts
assertAlive(k, reason) ==
    IF k
    THEN KillSwitchTriggeredError(IF reason = None THEN DEFAULT_KILL_REASON
                                  ELSE reason[1])
    ELSE NoError

\* ------------------------------------------------------- cost.ts
\* IEEE addition u + c of doubles, for c one of the literals 0.1, 0.2, 0.3
\* and u a sum of up to 15 terms 0.1 or of up to 4 terms 0.1, 0.2, 0.3: the
\* pairs listed are those whose rounded sum is not the code u + c
FloatAdd(u, c) ==
    LET p == <<u, c>>
    IN CASE p = <<10, 20>> -> 31
         [] p = <<20, 10>> -> 31
         [] p = <<31, 10>> -> 40
         [] p = <<31, 20>> -> 50
         [] p = <<40, 20>> -> 61
         [] p = <<60, 30>> -> 89
         [] p = <<61, 20>> -> 80
         [] p = <<70, 10>> -> 79
         [] p = <<70, 20>> -> 89
         [] p = <<71, 10>> -> 80
         [] p = <<71, 30>> -> 100
         [] p = <<79, 20>> -> 100
         [] p = <<89, 30>> -> 120
         [] p = <<91, 20>> -> 110
         [] p = <<99, 20>> -> 120
         [] p = <<109, 10>> -> 120
         [] p = <<109, 30>> -> 140
         [] p = <<110, 10>> -> 121
         [] p = <<110, 30>> -> 141
         [] p = <<130, 10>> -> 141
         [] OTHER -> u + c

addCost(run, tokens, usd) ==
    [run EXCEPT !.spent = [tokens |-> run.spent.tokens + tokens,
                           usd |-> FloatAdd(run.spent.usd, usd)]]

\* ------------------------------------------------------- guard.ts
\* variant: the guard fires as soon as a limit is reached
enforceLimitsAtLimit(run) ==
    IF run.spent.tokens >= run.budget.maxTokens
    THEN BudgetExceededError("tokens", run.spent.tokens, run.budget.maxTokens)
    ELSE IF run.spent.usd >= run.budget.maxUsd
    THEN BudgetExceededError("usd", run.spent.usd, run.budget.maxUsd)
    ELSE NoError

\* variant: the cost limit is looked at before the token limit
enforceLimitsUsdFirst(run) ==
    IF run.spent.usd > run.budget.maxUsd
    THEN BudgetExceededError("usd", run.spent.usd, run.budget.maxUsd)
    ELSE IF run.spent.tokens > run.budget.maxTokens
    THEN BudgetExceededError("tokens", run.spent.tokens, run.budget.maxTokens)
    ELSE NoError

enforceLimits(run) ==
    IF run.spent.tokens > run.budget.maxTokens
    THEN BudgetExceededError("tokens", run.spent.tokens, run.budget.maxTokens)
    ELSE IF run.spent.usd > run.budget.maxUsd
    THEN BudgetExceededError("usd", run.spent.usd, run.budget.maxUsd)
    ELSE NoError

\* ------------------------------------------------------- eventStore.ts
\* variant: the event is put in front of the log
logEventPrepend(log, event) == <<event>> \o log

logEvent(log, event) == Append(log, event)

getEvents(log) == [k \in 1..Len(log) |-> log[k]]

getEventCount(log) == Len(log)

\* ------------------------------------------------------- execution.ts
StepEvent(id, stepNumber, type, description, cost, tokens, timestamp) ==
    [id |-> id, stepNumber |-> stepNumber, type |-> type,
     description |-> description, cost |-> cost, tokens |-> tokens,
     timestamp |-> timestamp]

\* what one executeStep call leaves behind
StepResult(run, log, ids, err) ==
    [run |-> run, events |-> log, nextId |-> ids, err |-> err]

\* variant: the cost is accumulated before the kill switch is looked at
executeStepChargeFirst(run, stepNumber, type, description, tokens, cost, k, reason, log, ids, clock) ==
    LET alive == assertAlive(k, reason)
        charged == addCost(run, tokens, cost)
        guard == enforceLimits(charged)
        event == StepEvent(ids + 1, stepNumber, type, description, cost,
                           tokens, clock)
    IN IF alive # NoError THEN StepResult(charged, log, ids, alive)
       ELSE IF guard # NoError THEN StepResult(charged, log, ids, guard)
       ELSE StepResult([charged EXCEPT !.steps = Append(charged.steps, event)],
                       logEvent(log, event), ids + 1, NoError)

\* variant: the guard is evaluated on the spend before this step's cost
executeStepCheckFirst(run, stepNumber, type, description, tokens, cost, k, reason, log, ids, clock) ==
    LET alive == assertAlive(k, reason)
        guard == enforceLimits(run)
        charged == addCost(run, tokens, cost)
        event == StepEvent(ids + 1, stepNumber, type, description, cost,
                           tokens, clock)
    IN IF alive # NoError THEN StepResult(run, log, ids, alive)
       ELSE IF guard # NoError THEN StepResult(run, log, ids, guard)
       ELSE StepResult([charged EXCEPT !.steps = Append(charged.steps, event)],
                       logEvent(log, event), ids + 1, NoError)

\* variant: the step number is taken from the length of the event log
executeStepNumbersByLog(run, stepNumber, type, description, tokens, cost, k, reason, log, ids, clock) ==
    LET alive == assertAlive(k, reason)
        charged == addCost(run, tokens, cost)
        guard == enforceLimits(charged)
        event == StepEvent(ids + 1, Len(log) + 1, type, description, cost,
                           tokens, clock)
    IN IF alive # NoError THEN StepResult(run, log, ids, alive)
       ELSE IF guard # NoError THEN StepResult(charged, log, ids, guard)
       ELSE StepResult([charged EXCEPT !.steps = Append(charged.steps, event)],
                       logEvent(log, event), ids + 1, NoError)

\* variant: the event is appended before the cost is accumulated and the
\* guard evaluated
executeStepLogFirst(run, stepNumber, type, description, tokens, cost, k, reason, log, ids, clock) ==
    LET alive == assertAlive(k, reason)
        event == StepEvent(ids + 1, stepNumber, type, description, cost,
                           tokens, clock)
        logged == [run EXCEPT !.steps = Append(run.steps, event)]
        charged == addCost(logged, tokens, cost)
        guard == enforceLimits(charged)
    IN IF alive # NoError THEN StepResult(run, log, ids, alive)
       ELSE StepResult(charged, logEvent(log, event), ids + 1, guard)

\* variant: the event is put in run.steps before the guard is evaluated
executeStepCacheFirst(run, stepNumber, type, description, tokens, cost, k, reason, log, ids, clock) ==
    LET alive == assertAlive(k, reason)
        charged == addCost(run, tokens, cost)
        guard == enforceLimits(charged)
        event == StepEvent(ids + 1, stepNumber, type, description, cost,
                           tokens, clock)
        cached == [charged EXCEPT !.steps = Append(charged.steps, event)]
    IN IF alive # NoError THEN StepResult(run, log, ids, alive)
       ELSE IF guard # NoError THEN StepResult(cached, log, ids, guard)
       ELSE StepResult(cached, logEvent(log, event), ids + 1, NoError)

executeStep(run, stepNumber, type, description, tokens, cost, k, reason, log, ids, clock) ==
    LET alive == assertAlive(k, reason)
        charged == addCost(run, tokens, cost)
        guard == enforceLimits(charged)
        event == StepEvent(ids + 1, stepNumber, type, description, cost,
                           tokens, clock)
    IN IF alive # NoError THEN StepResult(run, log, ids, alive)
       ELSE IF guard # NoError THEN StepResult(charged, log, ids, guard)
       ELSE StepResult([charged EXCEPT !.steps = Append(charged.steps, event)],
                       logEvent(log, event), ids + 1, NoError)

\* variant: the kind of the error decides first, the kill switch only for
\* an error that is not an ExecutionError
handleExecutionErrorByKind(run, error, k, reason, clock) ==
    LET r1 == [run EXCEPT !.terminationReason = Some(error.message)]
        r2 == IF error.isExecutionError
              THEN [r1 EXCEPT !.state =
                       IF error.code = "KILL_SWITCH_TRIGGERED"
                       THEN "KILLED" ELSE "FAILED"]
              ELSE IF k
              THEN [r1 EXCEPT !.state = "KILLED",
                       !.terminationReason =
                           Some(PlainMessage(IF reason = None
                                             THEN "Execution terminated"
                                             ELSE reason[1]))]
              ELSE [r1 EXCEPT !.state = "FAILED"]
    IN [r2 EXCEPT !.endedAt = Some(clock)]

\* variant: terminationReason is assigned only when the switch is triggered
handleExecutionErrorKillReasonOnly(run, error, k, reason, clock) ==
    LET r2 == IF k
              THEN [run EXCEPT !.state = "KILLED",
                       !.terminationReason =
                           Some(PlainMessage(IF reason = None
                                             THEN "Execution terminated"
                                             ELSE reason[1]))]
              ELSE IF error.isExecutionError
              THEN [run EXCEPT !.state =
                       IF error.code = "KILL_SWITCH_TRIGGERED"
                       THEN "KILLED" ELSE "FAILED"]
              ELSE [run EXCEPT !.state = "FAILED"]
    IN [r2 EXCEPT !.endedAt = Some(clock)]

\* variant: the classifier does not stamp endedAt
handleExecutionErrorNoEnd(run, error, k, reason, clock) ==
    LET r1 == [run EXCEPT !.terminationReason = Some(error.message)]
    IN IF k
       THEN [r1 EXCEPT !.state = "KILLED",
                !.terminationReason =
                    Some(PlainMessage(IF reason = None
                                      THEN "Execution terminated"
                                      ELSE reason[1]))]
       ELSE IF error.isExecutionError
       THEN [r1 EXCEPT !.state =
                IF error.code = "KILL_SWITCH_TRIGGERED"
                THEN "KILLED" ELSE "FAILED"]
       ELSE [r1 EXCEPT !.state = "FAILED"]

handleExecutionError(run, error, k, reason, clock) ==
    LET r1 == [run EXCEPT !.terminationReason = Some(error.message)]
        r2 == IF k
              THEN [r1 EXCEPT !.state = "KILLED",
                       !.terminationReason =
                           Some(PlainMessage(IF reason = None
                                             THEN "Execution terminated"
                                             ELSE reason[1]))]
              ELSE IF error.isExecutionError
              THEN [r1 EXCEPT !.state =
                       IF error.code = "KILL_SWITCH_TRIGGERED"
                       THEN "KILLED" ELSE "FAILED"]
              ELSE [r1 EXCEPT !.state = "FAILED"]
    IN [r2 EXCEPT !.endedAt = Some(clock)]

\* ------------------------------------------------------- replay.ts
\* totalCost and totalTokens after the for loop of summarizeEvents: left to
\* right, from 0
RECURSIVE SumCost(_)
SumCost(evs) ==
    IF evs = << >> THEN 0
    ELSE FloatAdd(SumCost(SubSeq(evs, 1, Len(evs) - 1)), evs[Len(evs)].cost)

RECURSIVE SumTokens(_)
SumTokens(evs) ==
    IF evs = << >> THEN 0
    ELSE SumTokens(SubSeq(evs, 1, Len(evs) - 1)) + evs[Len(evs)].tokens

\* byType has a key for each type that occurs
ByType(evs) ==
    [t \in {evs[k].type : k \in 1..Len(evs)} |->
        Cardinality({k \in 1..Len(evs) : evs[k].type = t})]

\* variant: totalTokens = event.tokens instead of +=
summarizeEventsLastTokens(evs) ==
    [count |-> Len(evs), totalCost |-> SumCost(evs),
     totalTokens |-> IF evs = << >> THEN 0 ELSE evs[Len(evs)].tokens,
     byType |-> ByType(evs)]

summarizeEvents(evs) ==
    [count |-> Len(evs), totalCost |-> SumCost(evs),
     totalTokens |-> SumTokens(evs), byType |-> ByType(evs)]

\* variant: the duration is 0 when startedAt or endedAt is unset
generateSummaryZeroIfUnset(run, clock) ==
    LET startedAt == IF run.startedAt = None THEN clock ELSE run.startedAt[1]
        endedAt == IF run.endedAt = None THEN clock ELSE run.endedAt[1]
    IN [runId |-> run.id, finalState |-> run.state,
        stepsExecuted |-> Len(run.steps), totalCost |-> run.spent.usd,
        totalTokens |-> run.spent.tokens,
        terminationReason |-> run.terminationReason,
        durationMs |-> IF run.startedAt = None \/ run.endedAt = None
                       THEN 0 ELSE endedAt - startedAt,
        startedAt |-> startedAt, endedAt |-> endedAt]

\* terminationReason: string | null is kept as an optional value
generateSummary(run, clock) ==
    LET startedAt == IF run.startedAt = None THEN clock ELSE run.startedAt[1]
        endedAt == IF run.endedAt = None THEN clock ELSE run.endedAt[1]
    IN [runId |-> run.id, finalState |-> run.state,
        stepsExecuted |-> Len(run.steps), totalCost |-> run.spent.usd,
        totalTokens |-> run.spent.tokens,
        terminationReason |-> run.terminationReason,
        durationMs |-> endedAt - startedAt,
        startedAt |-> startedAt, endedAt |-> endedAt]

\* ------------------------------------------------------------------ calls
\* the runExecution(run, maxSteps) call on a run, from the call until its
\* promise has been consumed:
\*   pc          "idle" (no call), "loop" (inside the for loop), "returned"
\*               (promise fulfilled) or "threw" (promise rejected)
\*   i           the loop variable: the number of executeStep calls that
\*               returned
\*   maxSteps    the argument
\*   from, log0  run.state and the length of the event log at the call
\*   undisturbed the kill switch was off at the call and has not been
\*               triggered since, up to the end of the call
\*   checks      history: for each executeStep call made, whether the kill
\*               switch was triggered when it was made
Idle ==
    [pc |-> "idle", i |-> 0, maxSteps |-> 0, from |-> "", log0 |-> 0,
     undisturbed |-> TRUE, checks |-> << >>]

\* the caller's thread is free: no loop is in progress and no promise is
\* waiting for its .catch or .finally callback
CallerFree == \A q \in Runs : loop[q].pc = "idle"

\* no runExecution call is inside its loop
NoLoopRunning == \A q \in Runs : loop[q].pc # "loop"

\* last: what the latest direct transitionState call threw to its caller;
\* the outcome of every other call is in runs and thrown
Threw(err) == err.code

Other == Threw(NoError)

\* errors a caller may hand to handleExecutionError directly
SampleErrors == {UnrecognizedError("step executor failed")}

\* a direct call of enforceLimits: whether it was made, the run afterwards
\* and what it threw
Probed(called, run, err) == [called |-> called, run |-> run, err |-> err]

\* the caller holds no array, or one with identity ref ("fresh": an array
\* of its own, "events": the array of the event store), contents items, and
\* has mutated it muts times
Snapshot(ref, items, muts) == [ref |-> ref, items |-> items, muts |-> muts]

NoSnapshot == Snapshot("none", << >>, 0)

\* stopped after a call on a run: the spend is recorded the first time a
\* step of the run fails or the run is in a terminal state
Stopped(was, run, failed) ==
    IF was = None /\ (failed \/ isTerminalState(run.state))
    THEN Some(run.spent)
    ELSE was

\* the demo creates one run
\* the caller has made no summarizeEvents call and holds an empty array
NoFold == [arg |-> << >>, outs |-> << >>]

Init ==
    /\ \E b \in Budgets : runs = [r \in {1} |-> createExecutionRun(r, b)]
    /\ killed = FALSE
    /\ killReason = None
    /\ events = << >>
    /\ now = 0
    /\ nextId = 0
    /\ loop = [r \in Runs |-> Idle]
    /\ thrown = [r \in Runs |-> NoError]
    /\ calls = [r \in Runs |-> 0]
    /\ last = Other
    /\ trig = None
    /\ probe = createExecutionRun(0, Budget(0, 0))
    /\ probeOut = Probed(FALSE, probe, NoError)
    /\ snapshot = NoSnapshot
    /\ owner = << >>
    /\ stopped = [r \in Runs |-> None]
    /\ summary = None
    /\ fold = NoFold

\* an external caller applies transitionState(run, toState)
Transition(r, toState) ==
    /\ CallerFree
    /\ LET res == transitionState(runs[r], toState, now)
       IN /\ runs' = [runs EXCEPT ![r] = res.run]
          /\ last' = Threw(res.err)
    /\ stopped' = [stopped EXCEPT ![r] = Stopped(@, runs'[r], FALSE)]
    /\ UNCHANGED <<summary, fold, snapshot, owner, calls, killed, killReason, events, now, nextId, loop,
                   thrown, trig, probe, probeOut>>

\* runExecution(run, maxSteps), line 75: the transition to RUNNING
RunStart(r, n) ==
    /\ loop[r].pc = "idle"
    /\ NoLoopRunning
    /\ calls[r] < MaxRunCalls
    /\ calls' = [calls EXCEPT ![r] = @ + 1]
    /\ LET res == transitionState(runs[r], "RUNNING", now)
       IN /\ runs' = [runs EXCEPT ![r] = res.run]
          /\ thrown' = [thrown EXCEPT ![r] = res.err]
          /\ loop' = [loop EXCEPT ![r] =
                         [pc |-> IF res.err = NoError THEN "loop" ELSE "threw",
                          i |-> 0, maxSteps |-> n, from |-> runs[r].state,
                          log0 |-> Len(events), undisturbed |-> ~killed,
                          checks |-> << >>]]
          /\ last' = Other
    /\ UNCHANGED <<summary, fold, snapshot, owner, stopped, killed, killReason, events, now, nextId, trig, probe,
                   probeOut>>

\* variant, the earlier runExecution: catch (err) { run.state = "KILLED";
\* throw err; }
RunStepMarksKilled(r) ==
    /\ loop[r].pc = "loop"
    /\ loop[r].i < loop[r].maxSteps
    /\ LET n == loop[r].i + 1
           res == executeStep(runs[r], n, "LLM_CALL",
                              <<"Executing agent step ", n>>,
                              STEP_TOKENS, STEP_USD,
                              killed, killReason, events, nextId, now)
       IN /\ runs' = [runs EXCEPT ![r] =
                         IF res.err = NoError THEN res.run
                         ELSE [res.run EXCEPT !.state = "KILLED"]]
          /\ events' = res.events
          /\ nextId' = res.nextId
          /\ thrown' = [thrown EXCEPT ![r] = res.err]
          /\ loop' = [loop EXCEPT ![r] =
                         IF res.err = NoError
                         THEN [loop[r] EXCEPT !.i = n,
                                  !.checks = Append(@, killed)]
                         ELSE [loop[r] EXCEPT !.pc = "threw",
                                  !.checks = Append(@, killed)]]
          /\ last' = Other
    /\ owner' = IF nextId' > nextId THEN Append(owner, r) ELSE owner
    /\ stopped' = [stopped EXCEPT
                      ![r] = Stopped(@, runs'[r], thrown'[r] # NoError)]
    /\ UNCHANGED <<summary, fold, snapshot, calls, killed, killReason, now,
                   trig, probe, probeOut>>

\* runExecution, lines 77-86: one iteration of the loop
RunStep(r) ==
    /\ loop[r].pc = "loop"
    /\ loop[r].i < loop[r].maxSteps
    /\ LET n == loop[r].i + 1
           res == executeStep(runs[r], n, "LLM_CALL",
                              <<"Executing agent step ", n>>,
                              STEP_TOKENS, STEP_USD,
                              killed, killReason, events, nextId, now)
       IN /\ runs' = [runs EXCEPT ![r] = res.run]
          /\ events' = res.events
          /\ nextId' = res.nextId
          /\ thrown' = [thrown EXCEPT ![r] = res.err]
          /\ loop' = [loop EXCEPT ![r] =
                         IF res.err = NoError
                         THEN [loop[r] EXCEPT !.i = n,
                                  !.checks = Append(@, killed)]
                         ELSE [loop[r] EXCEPT !.pc = "threw",
                                  !.checks = Append(@, killed)]]
          /\ last' = Other
    /\ owner' = IF nextId' > nextId THEN Append(owner, r) ELSE owner
    /\ stopped' = [stopped EXCEPT
                      ![r] = Stopped(@, runs'[r], thrown'[r] # NoError)]
    /\ UNCHANGED <<summary, fold, snapshot, calls, killed, killReason, now, trig, probe, probeOut>>

\* variant: the loop condition is i < maxSteps - 1
RunCompleteEarly(r) ==
    /\ loop[r].pc = "loop"
    /\ loop[r].i + 1 >= loop[r].maxSteps
    /\ LET res == transitionState(runs[r], "COMPLETED", now)
       IN /\ runs' = [runs EXCEPT ![r] = res.run]
          /\ thrown' = [thrown EXCEPT ![r] = res.err]
          /\ loop' = [loop EXCEPT ![r].pc =
                         IF res.err = NoError THEN "returned" ELSE "threw"]
          /\ last' = Other
    /\ stopped' = [stopped EXCEPT ![r] = Stopped(@, runs'[r], FALSE)]
    /\ UNCHANGED <<summary, fold, snapshot, owner, calls, killed, killReason, events, now, nextId, trig, probe,
                   probeOut>>

\* runExecution, line 89: the loop is over
RunComplete(r) ==
    /\ loop[r].pc = "loop"
    /\ loop[r].i >= loop[r].maxSteps
    /\ LET res == transitionState(runs[r], "COMPLETED", now)
       IN /\ runs' = [runs EXCEPT ![r] = res.run]
          /\ thrown' = [thrown EXCEPT ![r] = res.err]
          /\ loop' = [loop EXCEPT ![r].pc =
                         IF res.err = NoError THEN "returned" ELSE "threw"]
          /\ last' = Other
    /\ stopped' = [stopped EXCEPT ![r] = Stopped(@, runs'[r], FALSE)]
    /\ UNCHANGED <<summary, fold, snapshot, owner, calls, killed, killReason, events, now, nextId, trig, probe,
                   probeOut>>

\* runExecution(run).catch(error => handleExecutionError(run, error))
CatchHandler(r) ==
    /\ loop[r].pc = "threw"
    /\ loop' = [loop EXCEPT ![r] = Idle]
    /\ runs' = [runs EXCEPT ![r] =
                   handleExecutionError(runs[r], thrown[r], killed,
                                        killReason, now)]
    /\ thrown' = [thrown EXCEPT ![r] = NoError]
    /\ last' = Other
    /\ stopped' = [stopped EXCEPT ![r] = Stopped(@, runs'[r], FALSE)]
    /\ UNCHANGED <<summary, fold, snapshot, owner, calls, killed, killReason, events, now, nextId, trig, probe,
                   probeOut>>

\* runExecution(run).catch(err => console.error("Stopped:", err.message))
CatchLogOnly(r) ==
    /\ loop[r].pc = "threw"
    /\ loop' = [loop EXCEPT ![r] = Idle]
    /\ thrown' = [thrown EXCEPT ![r] = NoError]
    /\ last' = Other
    /\ UNCHANGED <<summary, fold, snapshot, owner, stopped, calls, runs, killed, killReason, events, now, nextId, trig,
                   probe, probeOut>>

\* runExecution(run).finally(...): the promise was fulfilled
Finally(r) ==
    /\ loop[r].pc = "returned"
    /\ loop' = [loop EXCEPT ![r] = Idle]
    /\ last' = Other
    /\ UNCHANGED <<summary, fold, snapshot, owner, stopped, calls, runs, killed, killReason, events, now, nextId,
                   thrown, trig, probe, probeOut>>

\* a caller hands an error of its own to handleExecutionError
ClassifyError(r, e) ==
    /\ CallerFree
    /\ runs' = [runs EXCEPT ![r] =
                   handleExecutionError(runs[r], e, killed, killReason, now)]
    /\ last' = Other
    /\ stopped' = [stopped EXCEPT ![r] = Stopped(@, runs'[r], FALSE)]
    /\ UNCHANGED <<summary, fold, snapshot, owner, calls, killed, killReason, events, now, nextId, loop, thrown,
                   trig, probe, probeOut>>

\* variant: a second trigger keeps the reason of the first
KillExecutionFirstReasonWins(reason) ==
    /\ killed' = TRUE
    /\ killReason' = IF killed THEN killReason ELSE Some(reason)
    /\ trig' = Some(reason)
    /\ loop' = [r \in Runs |->
                   IF loop[r].pc = "loop"
                   THEN [loop[r] EXCEPT !.undisturbed = FALSE]
                   ELSE loop[r]]
    /\ last' = Other
    /\ UNCHANGED <<summary, fold, snapshot, owner, stopped, calls, runs, events, now, nextId, thrown, probe, probeOut>>

KillExecution(reason) ==
    /\ killed' = TRUE
    /\ killReason' = Some(reason)
    /\ trig' = Some(reason)
    /\ loop' = [r \in Runs |->
                   IF loop[r].pc = "loop"
                   THEN [loop[r] EXCEPT !.undisturbed = FALSE]
                   ELSE loop[r]]
    /\ last' = Other
    /\ UNCHANGED <<summary, fold, snapshot, owner, stopped, calls, runs, events, now, nextId, thrown, probe, probeOut>>

ResetKillSwitch ==
    /\ killed' = FALSE
    /\ killReason' = None
    /\ trig' = None
    /\ last' = Other
    /\ UNCHANGED <<summary, fold, snapshot, owner, stopped, calls, runs, events, now, nextId, loop, thrown, probe,
                   probeOut>>

ClearEvents ==
    /\ CallerFree
    /\ events' = << >>
    /\ last' = Other
    /\ UNCHANGED <<summary, fold, snapshot, owner, stopped, calls, runs, killed, killReason, now, nextId, loop, thrown,
                   trig, probe, probeOut>>

\* the clock advances
Tick ==
    /\ now < MaxClock
    /\ now' = now + 1
    /\ UNCHANGED <<summary, fold, snapshot, owner, stopped, calls, runs, killed, killReason, events, nextId, loop,
                   thrown, last, trig, probe, probeOut>>

Next ==
    \/ \E r \in Runs, s \in States : Transition(r, s)
    \/ \E r \in Runs, n \in StepArgs : RunStart(r, n)
    \/ \E r \in Runs : RunStep(r)
    \/ \E r \in Runs : RunComplete(r)
    \/ \E r \in Runs : CatchHandler(r)
    \/ \E r \in Runs : CatchLogOnly(r)
    \/ \E r \in Runs : Finally(r)
    \/ \E r \in Runs, e \in SampleErrors : ClassifyError(r, e)
    \/ \E reason \in KillReasons : KillExecution(reason)
    \/ ResetKillSwitch
    \/ ClearEvents
    \/ Tick

Spec == Init /\ [][Next]_vars

\* ------------------------------------------- enforceLimits called directly
\* the sum of k additions of 0.1, starting from 0
RECURSIVE AccUsd(_)
AccUsd(k) == IF k = 0 THEN 0 ELSE FloatAdd(AccUsd(k - 1), STEP_USD)

ProbeSpents ==
    {[tokens |-> t * STEP_TOKENS, usd |-> AccUsd(u)] :
        t \in 0..MaxProbeSteps, u \in 0..MaxProbeSteps}

\* maxUsd: the literals 0.2, 0.3 and 0.5
ProbeBudgets == {Budget(t, u) : t \in {100, 200}, u \in {20, 30, 50}}

ProbeRuns ==
    {[createExecutionRun(0, b) EXCEPT !.spent = sp] :
        b \in ProbeBudgets, sp \in ProbeSpents}

InitGuard ==
    /\ runs = [r \in {1} |-> createExecutionRun(r, Budget(200, 50))]
    /\ killed = FALSE
    /\ killReason = None
    /\ events = << >>
    /\ now = 0
    /\ nextId = 0
    /\ loop = [r \in Runs |-> Idle]
    /\ thrown = [r \in Runs |-> NoError]
    /\ calls = [r \in Runs |-> 0]
    /\ last = Other
    /\ trig = None
    /\ probe \in ProbeRuns
    /\ probeOut = Probed(FALSE, probe, NoError)
    /\ snapshot = NoSnapshot
    /\ owner = << >>
    /\ stopped = [r \in Runs |-> None]
    /\ summary = None
    /\ fold = NoFold

EnforceLimitsCall ==
    /\ ~probeOut.called
    /\ probeOut' = Probed(TRUE, probe, enforceLimits(probe))
    /\ UNCHANGED <<summary, fold, snapshot, owner, stopped, runs, killed, killReason, events, now, nextId, loop,
                   thrown, calls, last, trig, probe>>

\* the caller picks the run of its next call
ProbeAgain ==
    /\ probeOut.called
    /\ probe' \in ProbeRuns
    /\ probeOut' = Probed(FALSE, probe', NoError)
    /\ UNCHANGED <<summary, fold, snapshot, owner, stopped, runs, killed, killReason, events, now, nextId, loop,
                   thrown, calls, last, trig>>

NextGuard == EnforceLimitsCall \/ ProbeAgain

SpecGuard == InitGuard /\ [][NextGuard]_vars

\* ------------------------------------------ a caller mutates what it got
\* an element a caller writes into an array it holds
ForgedEvent ==
    StepEvent(0, 0, "TOOL_CALL", <<"written by the caller", 0>>, 0, 0, 0)

\* push, pop, assignment to element 0 and reverse on a JavaScript array
Mutations == {"push", "pop", "replace", "reverse"}

Mutated(kind, items) ==
    CASE kind = "push" -> Append(items, ForgedEvent)
      [] kind = "pop" -> SubSeq(items, 1, Len(items) - 1)
      [] kind = "replace" -> IF items = << >> THEN items
                             ELSE [items EXCEPT ![1] = ForgedEvent]
      [] kind = "reverse" ->
            [k \in 1..Len(items) |-> items[Len(items) + 1 - k]]

\* variant: getEvents returns the stored array itself
GetEventsCallShared ==
    /\ CallerFree
    /\ snapshot' = Snapshot("events", events, 0)
    /\ last' = Other
    /\ UNCHANGED <<summary, fold, owner, stopped, calls, runs, killed, killReason, events,
                   now, nextId, loop, thrown, trig, probe, probeOut>>

\* const a = getEvents(): the spread makes an array of the caller's own
GetEventsCall ==
    /\ CallerFree
    /\ snapshot' = Snapshot("fresh", getEvents(events), 0)
    /\ last' = Other
    /\ UNCHANGED <<summary, fold, owner, stopped, calls, runs, killed, killReason, events,
                   now, nextId, loop, thrown, trig, probe, probeOut>>

\* the caller mutates the array it holds; a write through a reference to
\* the stored array is a write to the stored array
MutateSnapshot(kind) ==
    /\ CallerFree
    /\ snapshot.ref # "none"
    /\ snapshot.muts < MaxMutations
    /\ LET items == Mutated(kind, snapshot.items)
       IN /\ snapshot' = Snapshot(snapshot.ref, items, snapshot.muts + 1)
          /\ events' = IF snapshot.ref = "events" THEN items ELSE events
    /\ last' = Other
    /\ UNCHANGED <<summary, fold, owner, stopped, calls, runs, killed, killReason, now,
                   nextId, loop, thrown, trig, probe, probeOut>>

NextSnapshot ==
    \/ \E r \in Runs, n \in StepArgs : RunStart(r, n)
    \/ \E r \in Runs : RunStep(r)
    \/ \E r \in Runs : RunComplete(r)
    \/ \E r \in Runs : CatchHandler(r)
    \/ \E r \in Runs : Finally(r)
    \/ GetEventsCall
    \/ \E kind \in Mutations : MutateSnapshot(kind)

SpecSnapshot == Init /\ [][NextSnapshot]_vars

\* ------------------------------------------- two runs against the same log
InitTwoRuns ==
    /\ runs = [r \in {1, 2} |-> createExecutionRun(r, Budget(200, 50))]
    /\ killed = FALSE
    /\ killReason = None
    /\ events = << >>
    /\ now = 0
    /\ nextId = 0
    /\ loop = [r \in Runs |-> Idle]
    /\ thrown = [r \in Runs |-> NoError]
    /\ calls = [r \in Runs |-> 0]
    /\ last = Other
    /\ trig = None
    /\ probe = createExecutionRun(0, Budget(0, 0))
    /\ probeOut = Probed(FALSE, probe, NoError)
    /\ snapshot = NoSnapshot
    /\ owner = << >>
    /\ stopped = [r \in Runs |-> None]
    /\ summary = None
    /\ fold = NoFold

NextTwoRuns ==
    \/ \E r \in Runs, n \in StepArgs : RunStart(r, n)
    \/ \E r \in Runs : RunStep(r)
    \/ \E r \in Runs : RunComplete(r)
    \/ \E r \in Runs : CatchHandler(r)
    \/ \E r \in Runs : Finally(r)
    \/ KillExecution(DEFAULT_KILL_REASON)
    \/ ResetKillSwitch
    \/ ClearEvents

SpecTwoRuns == InitTwoRuns /\ [][NextTwoRuns]_vars

\* ------------------- runExecution(run).catch(handleExecutionError) callers
\* every rejection of runExecution is handed to handleExecutionError
NextDemo ==
    \/ \E r \in Runs, s \in States : Transition(r, s)
    \/ \E r \in Runs, n \in StepArgs : RunStart(r, n)
    \/ \E r \in Runs : RunStep(r)
    \/ \E r \in Runs : RunComplete(r)
    \/ \E r \in Runs : CatchHandler(r)
    \/ \E r \in Runs : Finally(r)
    \/ \E reason \in KillReasons : KillExecution(reason)
    \/ ResetKillSwitch
    \/ Tick

\* runExecution is synchronous code that runs to completion once called,
\* and the job queue runs the .catch and .finally reactions of a settled
\* promise
FairDemo ==
    /\ WF_vars(\E r \in Runs : RunStep(r))
    /\ WF_vars(\E r \in Runs : RunComplete(r))
    /\ WF_vars(\E r \in Runs : CatchHandler(r))
    /\ WF_vars(\E r \in Runs : Finally(r))

SpecDemo == Init /\ [][NextDemo]_vars /\ FairDemo

\* ------------------------------------------------ summaries of a run
\* const summary = generateSummary(run)
GenerateSummaryCall(r) ==
    /\ CallerFree
    /\ summary' = Some([run |-> runs[r], out |-> generateSummary(runs[r], now)])
    /\ last' = Other
    /\ UNCHANGED <<fold, snapshot, owner, stopped, calls, runs, killed,
                   killReason, events, now, nextId, loop, thrown, trig, probe,
                   probeOut>>

NextSummary ==
    \/ \E r \in Runs, s \in States : Transition(r, s)
    \/ \E r \in Runs, n \in StepArgs : RunStart(r, n)
    \/ \E r \in Runs : RunStep(r)
    \/ \E r \in Runs : RunComplete(r)
    \/ \E r \in Runs : CatchHandler(r)
    \/ \E r \in Runs : Finally(r)
    \/ \E r \in Runs, e \in SampleErrors : ClassifyError(r, e)
    \/ \E r \in Runs : GenerateSummaryCall(r)
    \/ Tick

SpecSummary == Init /\ [][NextSummary]_vars

\* ------------------------------------- summarizeEvents on a caller's array
\* events a caller can hold: one of the loop's, and two of other types, costs
\* (the literals 0.2 and 0.3) and token counts
SampleEvents ==
    {StepEvent(1, 1, "LLM_CALL", <<"Executing agent step ", 1>>,
               STEP_USD, STEP_TOKENS, 0),
     StepEvent(2, 2, "TOOL_CALL", <<"tool call", 0>>, 20, 20, 0),
     StepEvent(3, 3, "DECISION", <<"decision", 0>>, 30, 0, 0)}

FoldInputs ==
    UNION {[1..n -> SampleEvents] : n \in 0..MaxFoldLen}

InitSummarize ==
    /\ runs = [r \in {1} |-> createExecutionRun(r, Budget(200, 50))]
    /\ killed = FALSE
    /\ killReason = None
    /\ events = << >>
    /\ now = 0
    /\ nextId = 0
    /\ loop = [r \in Runs |-> Idle]
    /\ thrown = [r \in Runs |-> NoError]
    /\ calls = [r \in Runs |-> 0]
    /\ last = Other
    /\ trig = None
    /\ probe = createExecutionRun(0, Budget(0, 0))
    /\ probeOut = Probed(FALSE, probe, NoError)
    /\ snapshot = NoSnapshot
    /\ owner = << >>
    /\ stopped = [r \in Runs |-> None]
    /\ summary = None
    /\ \E s \in FoldInputs : fold = [arg |-> s, outs |-> << >>]

\* summarizeEvents(arg): the array passed and the result are kept
SummarizeEventsCall ==
    /\ Len(fold.outs) < MaxFoldCalls
    /\ fold' = [fold EXCEPT !.outs =
                    Append(@, [arg |-> fold.arg,
                               out |-> summarizeEvents(fold.arg)])]
    /\ UNCHANGED <<summary, snapshot, owner, stopped, calls, runs, killed,
                   killReason, events, now, nextId, loop, thrown, last, trig,
                   probe, probeOut>>

\* the caller puts the elements of its array in another order
Rearrange ==
    /\ \E p \in Permutations(1..Len(fold.arg)) :
          /\ fold' = [fold EXCEPT !.arg =
                          [k \in 1..Len(fold.arg) |-> fold.arg[p[k]]]]
          /\ fold'.arg # fold.arg
    /\ UNCHANGED <<summary, snapshot, owner, stopped, calls, runs, killed,
                   killReason, events, now, nextId, loop, thrown, last, trig,
                   probe, probeOut>>

NextSummarize == SummarizeEventsCall \/ Rearrange

SpecSummarize == InitSummarize /\ [][NextSummarize]_vars

\* ================================================================ claims

\* the lifecycle table as section 4.1 of the specification lists it
AllowedPairs ==
    {<<"CREATED", "RUNNING">>,
     <<"RUNNING", "PAUSED">>, <<"RUNNING", "COMPLETED">>,
     <<"RUNNING", "KILLED">>, <<"RUNNING", "FAILED">>,
     <<"PAUSED", "RUNNING">>, <<"PAUSED", "KILLED">>}

\* C1: transitionState(run, to) with run.state = from succeeds and sets
\* run.state = to exactly when (from, to) is an allowed pair; for every
\* other pair it throws InvalidStateTransitionError and leaves run.state
\* as it was.
C1_TransitionTable ==
    [][\A r \in Runs, to \in States :
          Transition(r, to) =>
              IF <<runs[r].state, to>> \in AllowedPairs
              THEN runs'[r].state = to /\ last' = "OK"
              ELSE /\ runs'[r].state = runs[r].state
                   /\ last' = "INVALID_STATE_TRANSITION"]_vars

\* a transition out of a terminal state has just been refused
C1_Witness ==
    /\ last = "INVALID_STATE_TRANSITION"
    /\ runs[1].state = "COMPLETED"

\* C2: once run.state is COMPLETED, KILLED or FAILED, no operation changes
\* run.state again.
C2_TerminalAbsorbing ==
    [][\A r \in Runs :
          isTerminalState(runs[r].state) => runs'[r].state = runs[r].state]_vars

\* C3: while the kill switch is triggered no run's spent increases and no
\* event is appended to the event log or to run.steps; a step attempted
\* then throws KillSwitchTriggeredError and leaves the run as it was.
C3_NoWorkAfterKill ==
    [][killed =>
          /\ Len(events') <= Len(events)
          /\ \A r \in Runs :
                /\ runs'[r].spent = runs[r].spent
                /\ runs'[r].steps = runs[r].steps
                /\ RunStep(r) =>
                      /\ thrown'[r].code = "KILL_SWITCH_TRIGGERED"
                      /\ runs'[r] = runs[r]]_vars

\* the switch was triggered between two steps of a loop, and the next step
\* check has thrown
C3_Witness ==
    /\ killed
    /\ loop[1].pc = "threw"
    /\ thrown[1].code = "KILL_SWITCH_TRIGGERED"
    /\ loop[1].i > 0
    /\ runs[1].spent.tokens = loop[1].i * STEP_TOKENS

\* C4: assertAlive() succeeds as long as the switch has not been triggered
\* since the last reset (or ever), and fails with KillSwitchTriggeredError
\* carrying the reason of the latest trigger otherwise.
C4_Latch ==
    assertAlive(killed, killReason) =
        IF trig = None THEN NoError ELSE KillSwitchTriggeredError(trig[1])

\* a step check has failed with the reason the operator gave, which is not
\* the default one
C4_Witness ==
    /\ trig = Some("operator stop")
    /\ thrown[1].code = "KILL_SWITCH_TRIGGERED"
    /\ thrown[1].reason = "operator stop"

\* The scenario of C5: the first runExecution(run, 10) call on a fresh run
\* with budget {maxTokens: 200, maxUsd: 0.5}, made with an empty event log
\* and with the kill switch off from the call to its end.
C5_Scenario(r) ==
    /\ runs[r].budget = Budget(200, 50)
    /\ calls[r] = 1
    /\ loop[r].maxSteps = 10
    /\ loop[r].from = "CREATED"
    /\ loop[r].log0 = 0
    /\ loop[r].undisturbed

\* C5 as stated: the call fails with BudgetExceeded{tokens, 250, 200} after
\* exactly 5 steps succeeded, and the event log then holds exactly 5 events.
C5_FiveSteps ==
    \A r \in Runs :
        C5_Scenario(r) /\ loop[r].pc \in {"returned", "threw"} =>
            /\ loop[r].pc = "threw"
            /\ thrown[r] = BudgetExceededError("tokens", 250, 200)
            /\ loop[r].i = 5
            /\ Len(runs[r].steps) = 5
            /\ Len(events) = 5

\* C5, amended: the call fails with BudgetExceeded{tokens, 250, 200} after
\* exactly 4 steps succeeded and a 5th was attempted, and the event log then
\* holds exactly 4 events.
C5_FourSteps ==
    \A r \in Runs :
        C5_Scenario(r) /\ loop[r].pc \in {"returned", "threw"} =>
            /\ loop[r].pc = "threw"
            /\ thrown[r] = BudgetExceededError("tokens", 250, 200)
            /\ loop[r].i = 4
            /\ Len(runs[r].steps) = 4
            /\ Len(events) = 4

\* the call of the scenario has failed
C5_Witness == C5_Scenario(1) /\ loop[1].pc = "threw"

\* C6: enforceLimits(run) throws BudgetExceeded(tokens, spent.tokens,
\* maxTokens) if spent.tokens > maxTokens; otherwise BudgetExceeded(usd,
\* spent.usd, maxUsd) if spent.usd > maxUsd; otherwise it returns.  It
\* leaves the run as it was.
C6_GuardOrder ==
    probeOut.called =>
        LET sp == probe.spent
            b == probe.budget
            err == probeOut.err
        IN /\ probeOut.run = probe
           /\ IF sp.tokens > b.maxTokens
              THEN /\ err.code = "BUDGET_EXCEEDED"
                   /\ err.limitType = "tokens"
                   /\ err.spent = sp.tokens
                   /\ err.limit = b.maxTokens
              ELSE IF sp.usd > b.maxUsd
              THEN /\ err.code = "BUDGET_EXCEEDED"
                   /\ err.limitType = "usd"
                   /\ err.spent = sp.usd
                   /\ err.limit = b.maxUsd
              ELSE err.code = "OK"

\* both limits are exceeded at once and the guard has reported tokens
C6_Witness ==
    /\ probeOut.called
    /\ probe.spent.tokens > probe.budget.maxTokens
    /\ probe.spent.usd > probe.budget.maxUsd
    /\ probeOut.err.limitType = "tokens"

\* C7: a step that passed the kill-switch check is charged before the guard
\* is evaluated; the guard fails exactly when the totals including this
\* step exceed a limit, and then the charge stays in run.spent, no event is
\* appended to the event log or to run.steps, and the loop is over.
C7_ChargeThenCheck ==
    [][\A r \in Runs :
          /\ (RunStep(r) /\ ~killed) =>
                /\ runs'[r].spent.tokens = runs[r].spent.tokens + STEP_TOKENS
                /\ runs'[r].spent.usd > runs[r].spent.usd
                /\ thrown'[r] # NoError <=>
                      \/ runs'[r].spent.tokens > runs[r].budget.maxTokens
                      \/ runs'[r].spent.usd > runs[r].budget.maxUsd
                /\ thrown'[r] # NoError =>
                      /\ thrown'[r].code = "BUDGET_EXCEEDED"
                      /\ runs'[r].steps = runs[r].steps
                      /\ events' = events
                      /\ loop'[r].pc = "threw"
                /\ thrown'[r] = NoError =>
                      /\ Len(runs'[r].steps) = Len(runs[r].steps) + 1
                      /\ Len(events') = Len(events) + 1
          /\ loop[r].pc = "threw" => ~RunStep(r)]_vars

\* the guard has failed on the step after the last one logged
C7_Witness ==
    /\ loop[1].pc = "threw"
    /\ thrown[1].code = "BUDGET_EXCEEDED"
    /\ loop[1].i > 0
    /\ Len(runs[1].steps) = loop[1].i
    /\ runs[1].spent.tokens = (loop[1].i + 1) * STEP_TOKENS

\* what C8 expects of one handleExecutionError(run, e) call
C8_Classified(r, e) ==
    IF killed
    THEN /\ runs'[r].state = "KILLED"
         /\ runs'[r].terminationReason = Some(PlainMessage(trig[1]))
    ELSE IF e.code = "KILL_SWITCH_TRIGGERED"
    THEN runs'[r].state = "KILLED"
    ELSE runs'[r].state = "FAILED"

\* C8: if the kill switch is triggered when an error is classified, the run
\* ends KILLED with the kill switch's reason as terminationReason, whatever
\* the error; otherwise a KillSwitchTriggered error gives KILLED and every
\* other error FAILED.
C8_Classification ==
    [][\A r \in Runs :
          /\ CatchHandler(r) => C8_Classified(r, thrown[r])
          /\ \A e \in SampleErrors :
                ClassifyError(r, e) => C8_Classified(r, e)]_vars

\* a run stopped by the budget guard was classified while the switch was
\* triggered
C8_Witness ==
    /\ loop[1].pc = "idle"
    /\ runs[1].spent.tokens > runs[1].budget.maxTokens
    /\ runs[1].state = "KILLED"
    /\ runs[1].terminationReason = Some(PlainMessage("operator stop"))

\* C9: runExecution(run, maxSteps) throws at the transition to RUNNING
\* whenever run.state is not CREATED, without a step, a charge or an event.
C9_RunNeedsCreated ==
    [][\A r \in Runs, n \in StepArgs :
          (RunStart(r, n) /\ runs[r].state # "CREATED") =>
              /\ loop'[r].pc = "threw"
              /\ thrown'[r].code = "INVALID_STATE_TRANSITION"
              /\ runs'[r] = runs[r]
              /\ events' = events]_vars

\* C10: endedAt is unset while the run is CREATED, RUNNING or PAUSED, and
\* once set it is never changed.
C10_EndedAtOnce ==
    [][\A r \in Runs :
          /\ ~isTerminalState(runs'[r].state) => runs'[r].endedAt = None
          /\ runs[r].endedAt # None => runs'[r].endedAt = runs[r].endedAt]_vars

\* C11: startedAt is unset while the run is CREATED, it is set to the time
\* of the transition when the run goes from CREATED to RUNNING, and once set
\* no operation changes it, a RUNNING -> PAUSED -> RUNNING cycle included.
C11_StartedAtOnce ==
    [][\A r \in Runs :
          /\ runs'[r].state = "CREATED" => runs'[r].startedAt = None
          /\ (runs[r].state = "CREATED" /\ runs'[r].state = "RUNNING") =>
                runs'[r].startedAt = Some(now)
          /\ runs[r].startedAt # None =>
                runs'[r].startedAt = runs[r].startedAt]_vars

\* a run started at time 0 has been paused and is inside a loop entered from
\* PAUSED at time 1
C11_Witness ==
    /\ loop[1].pc = "loop"
    /\ loop[1].from = "PAUSED"
    /\ now = 1
    /\ runs[1].startedAt = Some(0)

\* C12: a runExecution(run, maxSteps) call that entered the loop and in
\* which no step failed (the kill switch stayed off and the budget was never
\* exceeded) ends with the run COMPLETED and exactly maxSteps events appended
\* for it; with maxSteps = 0 a fresh run goes CREATED -> RUNNING -> COMPLETED
\* with zero events and zero spend.
C12_CompletesWithMaxSteps ==
    \A r \in Runs :
        (loop[r].pc \in {"returned", "threw"}
            /\ loop[r].from \in {"CREATED", "PAUSED"}) =>
            /\ IF thrown[r].code \in {"KILL_SWITCH_TRIGGERED", "BUDGET_EXCEEDED"}
               THEN loop[r].pc = "threw"
               ELSE /\ loop[r].pc = "returned"
                    /\ thrown[r] = NoError
                    /\ runs[r].state = "COMPLETED"
                    /\ runs[r].endedAt # None
                    /\ loop[r].i = loop[r].maxSteps
                    /\ Len(events) = loop[r].log0 + loop[r].maxSteps
            /\ (/\ calls[r] = 1
                /\ loop[r].undisturbed
                /\ loop[r].maxSteps * STEP_TOKENS <= runs[r].budget.maxTokens
                /\ AccUsd(loop[r].maxSteps) <= runs[r].budget.maxUsd) =>
                   loop[r].pc = "returned"
            /\ (loop[r].pc = "returned" /\ loop[r].maxSteps = 0
                    /\ loop[r].from = "CREATED") =>
                   /\ runs[r].steps = << >>
                   /\ runs[r].spent = [tokens |-> 0, usd |-> 0]

\* a call with maxSteps >= 1 has returned and its events are in the log
C12_Witness ==
    /\ loop[1].pc = "returned"
    /\ loop[1].maxSteps >= 1
    /\ runs[1].state = "COMPLETED"
    /\ Len(events) = loop[1].log0 + loop[1].maxSteps

IsPrefix(s, t) == Len(s) <= Len(t) /\ \A k \in 1..Len(s) : s[k] = t[k]

\* C14: the event log is append-only: the log before a step is a prefix of
\* the log after it, except for clearEvents(), after which getEvents() is
\* empty; the loop and the classifier never clear the log.
C14_AppendOnly ==
    [][/\ IF ClearEvents
          THEN getEvents(events') = << >> /\ getEventCount(events') = 0
          ELSE IsPrefix(events, events')
       /\ \A r \in Runs :
             (\/ \E n \in StepArgs : RunStart(r, n)
              \/ RunStep(r)
              \/ RunComplete(r)
              \/ CatchHandler(r)
              \/ \E e \in SampleErrors : ClassifyError(r, e)) =>
                 IsPrefix(events, events')]_vars

\* the log holds two events of one loop, in the order they were appended
C14_Witness ==
    /\ Len(events) >= 2
    /\ events[1].stepNumber = 1
    /\ events[2].stepNumber = 2
    /\ events[1].id < events[2].id

\* C15: getEvents() returns an independent snapshot: adding, removing,
\* replacing or reordering elements of a returned array does not change the
\* stored log, so getEvents() and getEventCount() return afterwards what they
\* returned before.
C15_IndependentSnapshot ==
    [][\A kind \in Mutations :
          MutateSnapshot(kind) =>
              /\ events' = events
              /\ getEvents(events') = getEvents(events)
              /\ getEventCount(events') = getEventCount(events)]_vars

\* a caller has mutated an array it got from getEvents() while the log held
\* events, and the array now differs from the log
C15_Witness ==
    /\ snapshot.ref = "fresh"
    /\ snapshot.muts >= 1
    /\ Len(events) >= 1
    /\ snapshot.items # events

\* the events of the log that a step of run r logged, in log order
LoggedBy(r) == SelectSeq(events, LAMBDA e : owner[e.id] = r)

\* s is a suffix of t
IsSuffix(s, t) ==
    /\ Len(s) <= Len(t)
    /\ \A k \in 1..Len(s) : s[k] = t[Len(t) - Len(s) + k]

\* C16 as stated: in every reachable state, also with several runs executed
\* against the same log, run.steps is exactly the subsequence of the event
\* log made of the events produced by that run, in the same order.
C16_StepsMatchLog == \A r \in Runs : runs[r].steps = LoggedBy(r)

\* C16, amended: as long as clearEvents() has removed no event from the log,
\* run.steps is exactly the subsequence of the event log made of the events
\* produced by that run, in the same order; in every state the events of the
\* log produced by the run are the last elements of run.steps, in the same
\* order.
C16_StepsMatchUnclearedLog ==
    \A r \in Runs :
        /\ IsSuffix(LoggedBy(r), runs[r].steps)
        /\ Len(events) = nextId => runs[r].steps = LoggedBy(r)

\* two runs have logged steps to the same log, nothing was cleared, and the
\* log is the steps of one followed by the steps of the other
C16_Witness ==
    /\ runs[1].steps # << >>
    /\ runs[2].steps # << >>
    /\ Len(events) = nextId
    /\ Len(events) = Len(runs[1].steps) + Len(runs[2].steps)

\* C17: run.spent.tokens and run.spent.usd never decrease, and once a run
\* has failed in a step (budget exceeded or kill switch) or has reached a
\* terminal state its spent totals stay at the value they had then.
C17_SpendFrozen ==
    [][\A r \in Runs :
          /\ runs'[r].spent.tokens >= runs[r].spent.tokens
          /\ runs'[r].spent.usd >= runs[r].spent.usd
          /\ stopped[r] # None => runs'[r].spent = stopped[r][1]]_vars

\* C18: the loop is strictly sequential.  When the kill-switch check of
\* step n+1 is made, the n earlier steps of the call have been charged,
\* have passed the guard and have their events in the log; a step checks
\* the kill switch first (nothing is charged or appended if it is
\* triggered), then accumulates the cost, then evaluates the guard on the
\* new totals (nothing is appended if it fails), then appends the event.
C18_Sequential ==
    [][\A r \in Runs :
          RunStep(r) =>
              LET n == loop[r].i + 1
                  charged == addCost(runs[r], STEP_TOKENS, STEP_USD)
              IN /\ Len(events) = loop[r].log0 + loop[r].i
                 /\ calls[r] = 1 =>
                       /\ runs[r].spent.tokens = loop[r].i * STEP_TOKENS
                       /\ runs[r].spent.usd = AccUsd(loop[r].i)
                       /\ Len(runs[r].steps) = loop[r].i
                 /\ IF killed
                    THEN /\ thrown'[r].code = "KILL_SWITCH_TRIGGERED"
                         /\ runs'[r] = runs[r]
                         /\ events' = events
                    ELSE /\ runs'[r].spent = charged.spent
                         /\ IF enforceLimits(charged) # NoError
                            THEN /\ thrown'[r] = enforceLimits(charged)
                                 /\ runs'[r] = charged
                                 /\ events' = events
                            ELSE /\ thrown'[r] = NoError
                                 /\ Len(events') = Len(events) + 1
                                 /\ events'[Len(events')].stepNumber = n
                                 /\ runs'[r].steps =
                                       Append(runs[r].steps,
                                              events'[Len(events')])
                                 /\ loop'[r].i = n]_vars

\* the check of step 3 of a first call is about to be made: two steps are
\* charged and logged
C18_Witness ==
    /\ loop[1].pc = "loop"
    /\ calls[1] = 1
    /\ loop[1].i = 2
    /\ Len(events) = loop[1].log0 + 2
    /\ runs[1].spent.tokens = 2 * STEP_TOKENS

\* C19: every run ends: a runExecution(run, maxSteps) call whose rejection
\* is handed to the error classifier is eventually over with run.state in
\* {COMPLETED, KILLED, FAILED}, endedAt set and no rejection left
\* unclassified, whatever the run, the budget, maxSteps and the kill switch
\* do.
C19_EveryRunEnds ==
    \A r \in {1} :
        (loop[r].pc # "idle") ~>
            (/\ loop[r].pc = "idle"
             /\ isTerminalState(runs[r].state)
             /\ runs[r].endedAt # None
             /\ thrown[r] = NoError)

\* a call stopped by the kill switch after a logged step is over and its
\* run was classified KILLED
C19_Witness ==
    /\ loop[1].pc = "idle"
    /\ calls[1] = 1
    /\ runs[1].state = "KILLED"
    /\ runs[1].steps # << >>
    /\ runs[1].endedAt # None
    /\ runs[1].terminationReason # None

\* C20 as stated: terminationReason is set once when a run ends, abnormally
\* (KILLED, FAILED) or normally (COMPLETED): it is unset while the run is not
\* terminal, every run in a terminal state has it set, and it is assigned a
\* single time per run.
C20_ReasonSetOnce ==
    [][\A r \in Runs :
          /\ isTerminalState(runs'[r].state) <=>
                runs'[r].terminationReason # None
          /\ runs[r].terminationReason # None =>
                runs'[r].terminationReason = runs[r].terminationReason]_vars

\* C20, amended: terminationReason is set when the error classifier ends a
\* run (KILLED or FAILED) and only then: it is unset while the run is not
\* terminal and in a COMPLETED run, it is set after every call of the
\* classifier, and no other operation changes it.
C20_ReasonFromClassifier ==
    [][\A r \in Runs :
          /\ ~isTerminalState(runs'[r].state) =>
                runs'[r].terminationReason = None
          /\ runs'[r].state = "COMPLETED" => runs'[r].terminationReason = None
          /\ IF CatchHandler(r) \/ \E e \in SampleErrors : ClassifyError(r, e)
             THEN /\ runs'[r].terminationReason # None
                  /\ runs'[r].state \in {"KILLED", "FAILED"}
             ELSE runs'[r].terminationReason = runs[r].terminationReason]_vars

\* a run stopped by the budget guard has been classified FAILED with the
\* guard's message as its reason
C20_Witness ==
    /\ loop[1].pc = "idle"
    /\ runs[1].state = "FAILED"
    /\ runs[1].terminationReason =
          Some(BudgetExceededError("tokens", 250, 200).message)

\* what C21 says of every field of a summary but its duration
C21_Fields(run, out) ==
    /\ out.finalState = run.state
    /\ out.stepsExecuted = Len(run.steps)
    /\ out.totalTokens = run.spent.tokens
    /\ out.totalCost = run.spent.usd

\* C21 as stated: generateSummary(run) returns finalState = run.state,
\* stepsExecuted = the number of events in run.steps, totalTokens =
\* run.spent.tokens, totalCost = run.spent.usd and durationMs = endedAt -
\* startedAt, with durationMs = 0 whenever startedAt or endedAt is unset on
\* the run; it does not modify the run.
C21_SummaryZeroIfUnset ==
    [][\A r \in Runs :
          GenerateSummaryCall(r) =>
              LET run == runs[r]
                  out == summary'[1].out
              IN /\ C21_Fields(run, out)
                 /\ out.durationMs =
                       IF run.startedAt = None \/ run.endedAt = None THEN 0
                       ELSE run.endedAt[1] - run.startedAt[1]
                 /\ runs' = runs]_vars

\* C21, amended: the same fields, and durationMs = endedAt - startedAt where
\* an unset startedAt or endedAt is replaced by the time of the call: 0 when
\* both are unset, the time elapsed since startedAt when only endedAt is
\* unset, endedAt minus the time of the call when only startedAt is unset;
\* generateSummary does not modify the run.
C21_SummaryOfRun ==
    [][\A r \in Runs :
          GenerateSummaryCall(r) =>
              LET run == runs[r]
                  out == summary'[1].out
              IN /\ C21_Fields(run, out)
                 /\ out.durationMs =
                       CASE run.startedAt = None /\ run.endedAt = None -> 0
                         [] run.startedAt # None /\ run.endedAt = None ->
                               now - run.startedAt[1]
                         [] run.startedAt = None /\ run.endedAt # None ->
                               run.endedAt[1] - now
                         [] OTHER -> run.endedAt[1] - run.startedAt[1]
                 /\ runs' = runs]_vars

\* the summary of a run that is not over, made one tick after it started
C21_Witness ==
    /\ summary # None
    /\ summary[1].run.startedAt = Some(0)
    /\ summary[1].run.endedAt = None
    /\ summary[1].out.finalState = "RUNNING"
    /\ summary[1].out.durationMs = 1

\* C22 as stated: summarizeEvents is idempotent and order-independent:
\* called on the same sequence or on any permutation of it, it gives the
\* same {count, totalCost, totalTokens, byType}, and it leaves the sequence
\* and the stored log unchanged.
C22_OrderIndependent ==
    [][SummarizeEventsCall =>
          /\ fold'.arg = fold.arg
          /\ events' = events
          /\ \A k \in 1..Len(fold.outs) :
                fold.outs[k].out = summarizeEvents(fold.arg)]_vars

\* C22, amended: summarizeEvents gives identical results when called twice
\* on the same sequence; on any permutation of the sequence it gives the
\* same count, totalTokens and byType, and the same totalCost when all the
\* events have the same cost; the call leaves the sequence and the stored
\* log unchanged.
C22_OrderIndependentButCost ==
    [][SummarizeEventsCall =>
          /\ fold'.arg = fold.arg
          /\ events' = events
          /\ \A k \in 1..Len(fold.outs) :
                LET was == fold.outs[k]
                    out == fold'.outs[Len(fold'.outs)].out
                    arg == fold.arg
                IN /\ was.arg = arg => was.out = out
                   /\ was.out.count = out.count
                   /\ was.out.totalTokens = out.totalTokens
                   /\ was.out.byType = out.byType
                   /\ (\A i, j \in 1..Len(arg) : arg[i].cost = arg[j].cost)
                         => was.out.totalCost = out.totalCost]_vars

\* summarizeEvents was called on a sequence of three events of different
\* types and token counts and on a different arrangement of it
C22_Witness ==
    /\ Len(fold.outs) = 2
    /\ Len(fold.arg) = 3
    /\ fold.outs[1].arg # fold.outs[2].arg
    /\ fold.outs[1].out.totalTokens = 70
    /\ DOMAIN fold.outs[2].out.byType = {"LLM_CALL", "TOOL_CALL", "DECISION"}

\* what C23 compares of an event: all but its id and its timestamp
C23_Content(event) ==
    [stepNumber |-> event.stepNumber, type |-> event.type,
     description |-> event.description, tokens |-> event.tokens,
     cost |-> event.cost]

\* the first runExecution call on run r is over and its promise has not
\* been consumed yet
C23_FirstCallOver(r) ==
    /\ loop[r].pc \in {"returned", "threw"}
    /\ loop[r].from = "CREATED"

\* C23: two fresh runs with the same budget and the same maxSteps, whose
\* step checks found the kill switch in the same position (triggered at the
\* same step, or never), have the same events up to id and timestamp, the
\* same spent totals and the same state, fail with the same kind of error or
\* both return, and are classified into the same final state.
C23_Deterministic ==
    \A a, b \in Runs :
        (/\ C23_FirstCallOver(a)
         /\ C23_FirstCallOver(b)
         /\ runs[a].budget = runs[b].budget
         /\ loop[a].maxSteps = loop[b].maxSteps
         /\ loop[a].checks = loop[b].checks) =>
            /\ Len(runs[a].steps) = Len(runs[b].steps)
            /\ \A k \in 1..Len(runs[a].steps) :
                  C23_Content(runs[a].steps[k]) = C23_Content(runs[b].steps[k])
            /\ runs[a].spent = runs[b].spent
            /\ runs[a].state = runs[b].state
            /\ loop[a].pc = loop[b].pc
            /\ thrown[a].code = thrown[b].code
            /\ \A k \in BOOLEAN :
                  handleExecutionError(runs[a], thrown[a], k, killReason,
                                       now).state =
                  handleExecutionError(runs[b], thrown[b], k, killReason,
                                       now).state

\* two runs were both stopped by the kill switch at their second step, each
\* after one logged event
C23_Witness ==
    /\ C23_FirstCallOver(1)
    /\ C23_FirstCallOver(2)
    /\ loop[1].maxSteps = loop[2].maxSteps
    /\ loop[1].checks = <<FALSE, TRUE>>
    /\ loop[2].checks = <<FALSE, TRUE>>
    /\ Len(runs[1].steps) = 1
    /\ Len(runs[2].steps) = 1
    /\ runs[1].steps[1].id # runs[2].steps[1].id

\* C24: the loop does not classify or swallow a failure: when a step of
\* runExecution fails at the kill-switch check or at the budget guard, the
\* promise is rejected with that error as thrown, and the run is left
\* RUNNING with endedAt and terminationReason unset until the caller
\* classifies it.
C24_LoopPropagates ==
    \A r \in Runs :
        (loop[r].pc = "threw"
            /\ thrown[r].code \in {"KILL_SWITCH_TRIGGERED", "BUDGET_EXCEEDED"})
        => /\ runs[r].state = "RUNNING"
           /\ runs[r].endedAt = None
           /\ runs[r].terminationReason = None
           /\ loop[r].checks # << >>
           /\ IF loop[r].checks[Len(loop[r].checks)]
              THEN /\ thrown[r].reason \in KillReasons
                   /\ thrown[r] = KillSwitchTriggeredError(thrown[r].reason)
              ELSE thrown[r] = enforceLimits(runs[r])

\* a loop that had logged steps was stopped by the budget guard and its
\* rejection has not been consumed
C24_Witness ==
    /\ loop[1].pc = "threw"
    /\ thrown[1].code = "BUDGET_EXCEEDED"
    /\ runs[1].steps # << >>
    /\ runs[1].state = "RUNNING"

\* C25: overspend is bounded by one step: in every reachable state of a run
\* driven by runExecution with the charge (50 tokens, 0.1 usd) per step,
\* run.spent.tokens <= budget.maxTokens + 50 and run.spent.usd <=
\* budget.maxUsd + 0.1.
C25_OverspendOneStep ==
    \A r \in Runs :
        /\ runs[r].spent.tokens <= runs[r].budget.maxTokens + STEP_TOKENS
        /\ runs[r].spent.usd <= FloatAdd(runs[r].budget.maxUsd, STEP_USD)

\* C26: recorded spend reconciles with the events: when a runExecution call
\* has returned (the run is COMPLETED) or was stopped by the kill switch, the
\* totals of generateSummary(run) equal the totals of summarizeEvents over
\* run.steps; when it was stopped by BudgetExceeded, run.spent exceeds them
\* by exactly the charge of one step.
C26_SpendReconciles ==
    \A r \in Runs :
        LET ofRun == generateSummary(runs[r], now)
            ofEvents == summarizeEvents(runs[r].steps)
        IN /\ (\/ loop[r].pc = "returned"
               \/ /\ loop[r].pc = "threw"
                  /\ thrown[r].code = "KILL_SWITCH_TRIGGERED") =>
                  /\ ofRun.totalTokens = ofEvents.totalTokens
                  /\ ofRun.totalCost = ofEvents.totalCost
           /\ (loop[r].pc = "threw" /\ thrown[r].code = "BUDGET_EXCEEDED") =>
                  /\ ofRun.totalTokens = ofEvents.totalTokens + STEP_TOKENS
                  /\ ofRun.totalCost = FloatAdd(ofEvents.totalCost, STEP_USD)

\* C27: work happens only in RUNNING: every step in which run.spent grows
\* or an event is appended to run.steps starts and ends with run.state =
\* RUNNING, and a run in state COMPLETED has spent.tokens <=
\* budget.maxTokens and spent.usd <= budget.maxUsd.
C27_WorkOnlyInRunning ==
    [][\A r \in Runs :
          /\ (runs'[r].spent # runs[r].spent
                 \/ runs'[r].steps # runs[r].steps) =>
                /\ runs[r].state = "RUNNING"
                /\ runs'[r].state = "RUNNING"
          /\ runs'[r].state = "COMPLETED" =>
                /\ runs'[r].spent.tokens <= runs'[r].budget.maxTokens
                /\ runs'[r].spent.usd <= runs'[r].budget.maxUsd]_vars

\* C28: the duration of a summary is never negative: for every run reached
\* through createExecutionRun, transitionState, runExecution and the error
\* classifier, with a clock that never goes backwards,
\* generateSummary(run).durationMs >= 0 and its startedAt <= its endedAt.
C28_DurationNotNegative ==
    summary # None =>
        /\ summary[1].out.durationMs >= 0
        /\ summary[1].out.startedAt <= summary[1].out.endedAt

====
